---- MODULE Spec2Model ----
(***************************************************************************)
(* Route-to-asset dependency resolution of solid-start:                    *)
(*   - the dev-time style collection (collectStyles) and its dependency    *)
(*     walker (find_deps) over the live Vite module graph;                 *)
(*   - the build callbacks (islandsClient, client, spaClient) that merge   *)
(*     and persist route-manifest.json.                                    *)
(***************************************************************************)
EXTENDS Integers, Sequences, FiniteSets, TLC

VARIABLES
    \* ---- dev server: module graph and one collectStyles(match) call ----
    graph,        \* ModuleNode fields per node: ssrTransformResult, deps, importedModules
    match,        \* the input files of the collectStyles call
    byId,         \* files that moduleGraph.getModuleById currently resolves
    fi,           \* index of the input file the for-loop is at
    pc,           \* position of collectStyles: "file", "walk", "styles", "done"
    deps,         \* the shared Set `deps`, in insertion order
    lookups,      \* outstanding getModuleByUrl calls: [fr |-> frame, url |-> url]
    children,     \* <<parent frame, child frame>>: a branch awaiting find_deps
    frameSt,      \* state of the promise of each find_deps invocation
    expanded,     \* how many times find_deps was called per node
    threw,        \* whether a getModuleByUrl or ssrLoadModule call of the loop has thrown
    caught,       \* whether the catch block of the loop has run
    si,           \* position of the style loop in `deps`
    styles,       \* the `styles` object: set of <<url, value>>
    result,       \* what collectStyles returned
    loadFailed,   \* style dependencies whose ssrLoadModule threw in this call
    env,          \* what surrounds the call: env.cssModules, and which calls may throw
    call,         \* 1 for the first collectStyles call, 2 for a repeated one
    first,        \* what the first call returned, once a second one runs
    \* ---- build: one invocation of a build callback ----
    cb,           \* which callback runs: "islandsClient", "client", "spaClient"
    bpc,          \* position of the callback
    berr,         \* the step whose error ended the callback
    routeManifest,   \* route manifest of the first pass (or of the only pass)
    islandsManifest, \* prepareManifest(..., islands) of the islands pass
    newManifest,     \* the merged manifest
    stagingFiles,    \* files under routeManifestPath (.solid/route-manifest)
    outFiles,        \* asset files under the final output directory `path`
    outManifest,     \* path/route-manifest.json
    inspectManifest, \* inspect/route-manifest.json
    \* ---- dev server: one request handled by startHandler ----
    hpc,          \* position of startHandler: "fetch", "stream", "done", "failed"
    req,          \* the request: its url
    webRes,       \* the Response of devFetch: status, headers, body chunks
    res,          \* the ServerResponse: statusCode, headers, what went out on the wire
    written,      \* how many body chunks the pipe has written to res
    rethrown,     \* the error startHandler rejected with
    \* ---- browser: one createRouteAction ----
    input,        \* the signal `input`
    actionResult, \* the signal `result`: undefined, { data } or { error }
    count,        \* the request counter `count`
    subs,         \* the submissions started so far, by reqId: input, progress, outcome
    fnCalls,      \* how many times the action function was called
    retries,      \* how many times retry() was called
    lastCall,     \* the last call made on the action: submit, retry, clear
    \* ---- browser: one createRouteMultiAction ----
    event,        \* whether useContext(ServerContext) gave an event
    submissions,  \* the signal `submissions`: the listed submission objects, in order
    made,         \* every submission object created: its input and its `result` signal
    flights,      \* the promises handed to handleSubmit: submission, progress, outcome
    mlast,        \* the last call made on the multi action, and a bit flipped by each call
    \* ---- browser: one server$.call ----
    spc,          \* position of server$.call: "fetch", "parse", "done"
    response,     \* the Response fetch resolved with
    outcome       \* how the promise of server$.call settled, and with what

walkVars == <<graph, match, byId, fi, pc, deps, lookups, children, frameSt,
              expanded, threw, caught, si, styles, result, loadFailed, env, call, first>>
buildVars == <<cb, bpc, berr, routeManifest, islandsManifest, newManifest,
               stagingFiles, outFiles, outManifest, inspectManifest>>
handlerVars == <<hpc, req, webRes, res, written, rethrown>>
actionVars == <<input, actionResult, count, subs, fnCalls, retries, lastCall>>
multiVars == <<event, submissions, made, flights, mlast>>
serverVars == <<spc, response, outcome>>
clientVars == <<actionVars, multiVars, serverVars>>
vars == <<walkVars, buildVars, handlerVars, clientVars>>

None == "none"

\* ------------------------------------------------------------- bounds
\* most import edges (static and dynamic together) of a graph walked from one root
MaxEdges == 3
\* most import edges of a graph used with several input files
MaxStyleEdges == 2
\* most input files of one collectStyles call
MaxFiles == 2
\* most modules of a graph that lack a static-import list
MaxPlain == 1
\* most assets of one asset list of a bundler-derived manifest
MaxAssets == 2
\* most import edges of a graph that collectStyles is called on twice
MaxRepeatEdges == 2
\* most calls that throw in a stable environment
MaxFaults == 1
\* most chunks of a response body
MaxChunks == 2
\* most headers of a response
MaxHeaders == 1
\* most assets of one asset list of a manifest whose order is looked at
MaxMergeAssets == 3
\* most submissions of one route action
MaxSubmits == 2
\* most retry() calls on one route action
MaxRetries == 1

\* ------------------------------------------------------------- helpers
RECURSIVE SubsetsUpTo(_, _)
SubsetsUpTo(S, k) ==
    IF k = 0 THEN {{}}
    ELSE LET P == SubsetsUpTo(S, k - 1)
         IN  P \cup {p \cup {x} : p \in P, x \in S}

Range(s) == {s[i] : i \in 1..Len(s)}

RECURSIVE SeqsUpTo(_, _)
SeqsUpTo(S, k) ==
    IF k = 0 THEN {<<>>}
    ELSE LET P == SeqsUpTo(S, k - 1)
         IN  P \cup {Append(p, x) : p \in P, x \in S}

\* ------------------------------------------------------------- module graph
Nodes == {"A", "B", "C"}

\* ModuleNode.url
UrlOf(n) ==
    CASE n = "A" -> "/a.tsx"
      [] n = "B" -> "/b.css"
      [] n = "C" -> "/c.module.css"

\* an import specifier that resolves to no module
MissingUrl == "/x.css"
Urls == {UrlOf(n) : n \in Nodes} \cup {MissingUrl}

\* moduleGraph.getModuleByUrl: the node whose url is u, or none
getModuleByUrl(u) ==
    IF \E n \in Nodes : UrlOf(n) = u
    THEN CHOOSE n \in Nodes : UrlOf(n) = u
    ELSE None

\* The graphs: static imports E (node, url), dynamic imports D (node, node),
\* which modules went through the SSR transform ("deps": transform result with a
\* deps list; "nodeps": transform result without one; "none": no transform result),
\* and the order in which the modules a node imports were inserted into its
\* importedModules Set.
TrKinds == {"deps", "nodeps", "none"}

\* the modules n imports, statically or dynamically
Imported(E, D, n) ==
    {getModuleByUrl(e[2]) : e \in {x \in E : x[1] = n /\ getModuleByUrl(x[2]) # None}}
    \cup {d[2] : d \in {x \in D : x[1] = n}}

\* a graph before the insertion orders are chosen: importedModules holds the members
MkGraph(E, D, kind) ==
    [n \in Nodes |->
        [tr |-> kind[n],
         deps |-> IF kind[n] = "deps" THEN {e[2] : e \in {x \in E : x[1] = n}} ELSE {},
         importedModules |-> Imported(E, D, n)]]

\* the orders a Set with the members S can iterate in: insertion order, no member twice
RECURSIVE InsertionOrders(_)
InsertionOrders(S) ==
    IF S = {} THEN {<<>>}
    ELSE UNION {{<<x>> \o o : o \in InsertionOrders(S \ {x})} : x \in S}

\* one of these orders
RECURSIVE OneOrder(_)
OneOrder(S) ==
    IF S = {} THEN <<>>
    ELSE LET x == CHOOSE y \in S : TRUE IN <<x>> \o OneOrder(S \ {x})

\* the orders of the importedModules of n that the graphs take: every insertion
\* order for a node without transform result, the only kind of node whose
\* importedModules find_deps iterates; one order, standing for all, for a node
\* with a transform result, whose importedModules are never read
OrdersOf(g, n) ==
    IF g[n].tr = "none"
    THEN InsertionOrders(g[n].importedModules)
    ELSE {OneOrder(g[n].importedModules)}

\* the graph g with its importedModules Sets in the insertion orders ord
Ordered(g, ord) == [n \in Nodes |-> [g[n] EXCEPT !.importedModules = ord[n]]]

AllEdges == {<<"s", n, u>> : n \in Nodes, u \in Urls} \cup {<<"d", n, m>> : n \in Nodes, m \in Nodes}

KindsUpTo(k) ==
    {kd \in [Nodes -> TrKinds] : Cardinality({n \in Nodes : kd[n] # "deps"}) <= k}

GraphsUpTo(k) ==
    {MkGraph({<<e[2], e[3]>> : e \in {x \in es : x[1] = "s"}},
             {<<e[2], e[3]>> : e \in {x \in es : x[1] = "d"}}, kd) :
        es \in SubsetsUpTo(AllEdges, k), kd \in KindsUpTo(MaxPlain)}

\* ------------------------------------------------------------- input files
\* "fa": a route file already in the graph (found by id), module A
\* "fb": a file that is not yet in the graph; after ssrLoadModule it is found by url, module B
\* "fn": a file that getModuleById and getModuleByUrl(absolutePath) never resolve
Files == {"fa", "fb", "fn"}
FileNode(f) ==
    CASE f = "fa" -> "A"
      [] f = "fb" -> "B"
      [] f = "fn" -> None

\* ------------------------------------------------------------- find_deps
Frames == {"root"} \cup Nodes

InDeps(d, n) == n \in Range(d)

\* the walk state threaded through the synchronous part of find_deps
WalkState == [deps |-> deps, lookups |-> lookups, children |-> children,
              frameSt |-> frameSt, expanded |-> expanded]

RECURSIVE find_deps(_, _, _)
RECURSIVE add(_, _, _)
RECURSIVE addAll(_, _, _)

\* add, awaiting the walk already under way for a node that is in deps
add_AwaitVisited(f, n, st) ==
    IF InDeps(st.deps, n) THEN [st EXCEPT !.children = @ \cup {<<f, n>>}]
    ELSE find_deps(n, n,
            [st EXCEPT !.deps = Append(@, n),
                       !.children = @ \cup {<<f, n>>}])

\* add, without the recursive find_deps call
add_NoRecurse(f, n, st) ==
    IF InDeps(st.deps, n) THEN st
    ELSE [st EXCEPT !.deps = Append(@, n)]

\* add, with a visited check that lets a node through a second time
add_Revisit(f, n, st) ==
    IF InDeps(st.deps, n) /\ st.expanded[n] >= 2 THEN st
    ELSE find_deps(n, n,
            [st EXCEPT !.deps = IF InDeps(@, n) THEN @ ELSE Append(@, n),
                       !.children = @ \cup {<<f, n>>}])

\* add(node) called from frame f
add(f, n, st) ==
    IF InDeps(st.deps, n) THEN st
    ELSE find_deps(n, n,
            [st EXCEPT !.deps = Append(@, n),
                       !.children = @ \cup {<<f, n>>}])

addAll(f, ns, st) ==
    IF ns = <<>> THEN st
    ELSE addAll(f, Tail(ns), add(f, Head(ns), st))

\* find_deps falling back to importedModules whenever there is no deps list
find_deps_FallbackNoList(f, n, st) ==
    LET st1 == [st EXCEPT !.frameSt[f] = "open",
                          !.expanded[n] = @ + 1]
    IN  IF graph[n].tr = "deps"
        THEN [st1 EXCEPT !.lookups = @ \cup {[fr |-> f, url |-> u] : u \in graph[n].deps}]
        ELSE addAll(f, graph[n].importedModules, st1)

\* the synchronous part of find_deps(vite, node, deps), run as frame f: every
\* getModuleByUrl of the deps list is issued, or every imported module is added
find_deps(f, n, st) ==
    LET st1 == [st EXCEPT !.frameSt[f] = "open",
                          !.expanded[n] = @ + 1]
    IN  IF graph[n].tr # "none"
        THEN IF graph[n].tr = "deps"
             THEN [st1 EXCEPT !.lookups = @ \cup {[fr |-> f, url |-> u] : u \in graph[n].deps}]
             ELSE st1
        ELSE addAll(f, graph[n].importedModules, st1)

\* await Promise.all(branches): a frame resolves once it has no outstanding lookup
\* and every child frame has resolved
FrameDone(st, f) ==
    /\ st.frameSt[f] = "open"
    /\ ~\E l \in st.lookups : l.fr = f
    /\ \A c \in st.children : c[1] = f => st.frameSt[c[2]] = "resolved"

RECURSIVE Resolve(_)
Resolve(st) ==
    IF \E f \in Frames : FrameDone(st, f)
    THEN LET f == CHOOSE g \in Frames : FrameDone(st, g)
         IN  Resolve([st EXCEPT !.frameSt[f] = "resolved"])
    ELSE st

\* a rejected branch rejects Promise.all of its frame at once, and so every
\* frame awaiting it
RECURSIVE Reject(_, _)
Reject(st, f) ==
    LET st1 == [st EXCEPT !.frameSt[f] = "rejected"]
        ps  == {c[1] : c \in {x \in st.children : x[2] = f /\ st.frameSt[x[1]] = "open"}}
    IN  IF st.frameSt[f] # "open" THEN st
        ELSE IF ps = {} THEN st1
        ELSE Reject(st1, CHOOSE p \in ps : TRUE)

\* add_by_url without the `if (node)` guard: add(undefined) throws
add_by_url_NoGuard(f, node, st) ==
    IF node # None THEN add(f, node, st) ELSE Reject(st, f)

\* the continuation of add_by_url(url) in frame f once getModuleByUrl returned node
add_by_url(f, node, st) ==
    IF node # None THEN add(f, node, st) ELSE st

\* ------------------------------------------------------------- collectStyles
StyleExts == {"css", "less", "sass", "scss", "styl", "stylus", "pcss", "postcss"}

\* ModuleNode.file, split at the dots
FileOf(n) ==
    CASE n = "A" -> <<"/a", "tsx">>
      [] n = "B" -> <<"/b", "css">>
      [] n = "C" -> <<"/c", "module", "css">>

\* /\.(css|less|sass|scss|styl|stylus|pcss|postcss)$/
style_pattern(file) == Len(file) >= 2 /\ file[Len(file)] \in StyleExts

\* /\.module\.(css|less|sass|scss|styl|stylus|pcss|postcss)$/
module_style_pattern(file) ==
    Len(file) >= 3 /\ file[Len(file)] \in StyleExts /\ file[Len(file) - 1] = "module"

\* what collectStyles returned: nothing yet, undefined, or the styles object
Pending == <<"pending">>
Undefined == <<"undefined">>
Returned(sty) == <<"styles", sty>>

\* the style loop without the style_pattern test: every dep is loaded
NextStyle_All(d, i) == i

\* the next position of `for (const dep of deps)` at or after i that holds a style
\* file: the loop body of any other dep has no suspension point
RECURSIVE NextStyle(_, _)
NextStyle(d, i) ==
    IF i > Len(d) THEN i
    ELSE IF style_pattern(FileOf(d[i])) THEN i
    ELSE NextStyle(d, i + 1)

\* the for-loop, adding the root itself to deps before walking it
startWalk_AddRoot(n, st) ==
    find_deps("root", n,
        [st EXCEPT !.deps = IF InDeps(@, n) THEN @ ELSE Append(@, n),
                   !.lookups = {}, !.children = {},
                   !.frameSt = [f \in Frames |-> "idle"]])

\* the state of a fresh find_deps(viteServer, node, deps) call of the for-loop
startWalk(n, st) ==
    find_deps("root", n,
        [st EXCEPT !.lookups = {}, !.children = {},
                   !.frameSt = [f \in Frames |-> "idle"]])

\* control leaves the try block (loop over, or catch) and reaches the style loop:
\* it runs up to the first ssrLoadModule, or to `return styles`
ToStyles(d) ==
    LET j == NextStyle(d, 1)
    IN  /\ si' = j
        /\ styles' = {}
        /\ IF j > Len(d)
           THEN pc' = "done" /\ result' = Returned({})
           ELSE pc' = "styles" /\ result' = result

\* the walk state after a step of the walk, and where collectStyles continues
Continue(st, thrown) ==
    /\ deps' = st.deps
    /\ loadFailed' = loadFailed
    /\ lookups' = st.lookups
    /\ children' = st.children
    /\ frameSt' = st.frameSt
    /\ expanded' = st.expanded
    /\ threw' = (threw \/ thrown)
    /\ IF pc \in {"file", "walk"}
       THEN CASE st.frameSt["root"] = "rejected" ->
                    \* catch (e) {}
                    /\ caught' = TRUE
                    /\ fi' = fi
                    /\ ToStyles(st.deps)
              [] st.frameSt["root"] = "resolved" /\ fi < Len(match) ->
                    /\ fi' = fi + 1
                    /\ pc' = "file"
                    /\ UNCHANGED <<caught, si, styles, result>>
              [] st.frameSt["root"] = "resolved" /\ fi >= Len(match) ->
                    /\ fi' = fi
                    /\ caught' = caught
                    /\ ToStyles(st.deps)
              [] OTHER ->
                    /\ pc' = "walk"
                    /\ UNCHANGED <<fi, caught, si, styles, result>>
       ELSE UNCHANGED <<fi, pc, caught, si, styles, result>>

\* getModuleById(normalizedPath) finds the node: await find_deps(viteServer, node, deps)
FileFound ==
    /\ pc = "file"
    /\ match[fi] \in byId
    /\ Continue(Resolve(startWalk(FileNode(match[fi]), WalkState)), FALSE)
    /\ UNCHANGED <<graph, match, env, call, first, byId, buildVars, handlerVars, clientVars>>

\* the node is not in the graph; ssrLoadModule(absolutePath) loads it and
\* getModuleByUrl(absolutePath) finds it
FileLoaded ==
    /\ pc = "file"
    /\ match[fi] \notin byId
    /\ match[fi] \in env.mayReturn
    /\ FileNode(match[fi]) # None
    /\ byId' = byId \cup {match[fi]}
    /\ Continue(Resolve(startWalk(FileNode(match[fi]), WalkState)), FALSE)
    /\ UNCHANGED <<graph, match, env, call, first, buildVars, handlerVars, clientVars>>

\* ssrLoadModule(absolutePath) throws: the catch block ends the loop
FileLoadThrows ==
    /\ pc = "file"
    /\ match[fi] \notin byId
    /\ match[fi] \in env.mayThrow
    /\ threw' = TRUE
    /\ caught' = TRUE
    /\ ToStyles(deps)
    /\ UNCHANGED <<graph, match, env, call, first, byId, fi, deps, lookups, children,
                   frameSt, expanded, loadFailed, buildVars, handlerVars, clientVars>>

\* getModuleByUrl(absolutePath) finds nothing: console.log("not found"); return
FileNotFound ==
    /\ pc = "file"
    /\ match[fi] \notin byId
    /\ match[fi] \in env.mayReturn
    /\ FileNode(match[fi]) = None
    /\ pc' = "done"
    /\ result' = Undefined
    /\ UNCHANGED <<graph, match, env, call, first, byId, fi, deps, lookups, children,
                   frameSt, expanded, threw, caught, si, styles, loadFailed, buildVars, handlerVars, clientVars>>

\* an outstanding getModuleByUrl(url) settles with the node or with nothing
LookupSettles ==
    \E l \in lookups :
        /\ l.url \in env.mayReturn
        /\ Continue(Resolve(add_by_url(l.fr, getModuleByUrl(l.url),
                        [WalkState EXCEPT !.lookups = @ \ {l}])), FALSE)
        /\ UNCHANGED <<graph, match, env, call, first, byId, buildVars, handlerVars, clientVars>>

\* an outstanding getModuleByUrl(url) throws
LookupThrows ==
    \E l \in lookups :
        /\ l.url \in env.mayThrow
        /\ Continue(Reject([WalkState EXCEPT !.lookups = @ \ {l}], l.fr), TRUE)
        /\ UNCHANGED <<graph, match, env, call, first, byId, buildVars, handlerVars, clientVars>>

\* mod.default of the loaded module of node n
ModDefault(n) == <<"default", n>>

\* env.cssModules?.[file]: env.cssModules is <<>> when it is undefined, and
\* <<F>> when it is an object holding a class-name mapping for the files of F
CssModules(file) ==
    IF env.cssModules = <<>> THEN Undefined
    ELSE IF file \in env.cssModules[1] THEN <<"classes", file>>
    ELSE Undefined

\* the style loop reading mod.default for every style file
StyleValue_Default(n) == ModDefault(n)

\* the value stored for a style dependency whose module was loaded
StyleValue(n) ==
    IF module_style_pattern(FileOf(n))
    THEN CssModules(FileOf(n))
    ELSE ModDefault(n)

\* the loop continues after the body of deps[si], up to the next ssrLoadModule
StyleNext(sty) ==
    LET j == NextStyle(deps, si + 1)
    IN  /\ si' = j
        /\ styles' = sty
        /\ IF j > Len(deps)
           THEN pc' = "done" /\ result' = Returned(sty)
           ELSE pc' = "styles" /\ result' = result

\* ssrLoadModule(dep.url) of the style loop returns
StyleLoaded ==
    /\ pc = "styles"
    /\ deps[si] \in env.mayReturn
    /\ StyleNext(styles \cup {<<UrlOf(deps[si]), StyleValue(deps[si])>>})
    /\ UNCHANGED <<graph, match, env, call, first, byId, fi, deps, lookups, children,
                   frameSt, expanded, threw, caught, loadFailed, buildVars, handlerVars, clientVars>>

\* the try/catch around the style loop instead of inside it: the first load
\* that throws ends the loop
StyleLoadThrows_Abort ==
    /\ pc = "styles"
    /\ deps[si] \in env.mayThrow
    /\ loadFailed' = loadFailed \cup {deps[si]}
    /\ pc' = "done"
    /\ result' = Returned(styles)
    /\ UNCHANGED <<graph, match, env, call, first, byId, fi, deps, lookups, children,
                   frameSt, expanded, threw, caught, si, styles, buildVars, handlerVars, clientVars>>

\* ssrLoadModule(dep.url) of the style loop throws: console.warn, next dep
StyleLoadThrows ==
    /\ pc = "styles"
    /\ deps[si] \in env.mayThrow
    /\ loadFailed' = loadFailed \cup {deps[si]}
    /\ StyleNext(styles)
    /\ UNCHANGED <<graph, match, env, call, first, byId, fi, deps, lookups, children,
                   frameSt, expanded, threw, caught, buildVars, handlerVars, clientVars>>

\* JavaScript values of the browser side: undefined, the empty string, plain
\* values, a Response that is no redirect and a redirect Response
JsUndefined == "undefined"
Truthy(x) == x \notin {JsUndefined, ""}
isResponse(x) == x \in {"response", "redirect"}
isRedirectResponse(x) == x = "redirect"

\* the signal `result`
NoResult == [kind |-> "undefined", v |-> JsUndefined]
DataResult(x) == [kind |-> "data", v |-> x]
ErrorResult(x) == [kind |-> "error", v |-> x]

\* no route action exists
ActionIdle ==
    /\ input = JsUndefined /\ actionResult = NoResult
    /\ count = 0 /\ subs = <<>> /\ fnCalls = 0 /\ retries = 0 /\ lastCall = None

\* no multi action has been created
MultiIdle ==
    /\ event = FALSE /\ submissions = <<>> /\ made = <<>> /\ flights = <<>>
    /\ mlast = [op |-> None, sub |-> 0, tick |-> 0]

\* fetch has not resolved: no Response
NoResponse == [rtype |-> "null", xct |-> "", ct |-> "", status |-> 0, location |-> "", body |-> ""]

\* the promise of server$.call has not settled
NoOutcome == [how |-> "unsettled", value |-> [kind |-> "none", v |-> "", status |-> 0]]

\* server$.call has not been called
ServerIdle == spc = None /\ response = NoResponse /\ outcome = NoOutcome

ClientIdle == ActionIdle /\ MultiIdle /\ ServerIdle

\* no request is being handled
HandlerIdle ==
    /\ hpc = None /\ req = [url |-> ""]
    /\ webRes = <<>>
    /\ res = [statusCode |-> 200, headers |-> {}, headersSent |-> FALSE,
              wireStatus |-> 0, wireHeaders |-> {}, body |-> <<>>, ended |-> FALSE]
    /\ written = 0 /\ rethrown = <<>>

BuildIdle ==
    /\ cb = None /\ bpc = None /\ berr = None
    /\ routeManifest = <<>> /\ islandsManifest = <<>> /\ newManifest = <<>>
    /\ stagingFiles = {} /\ outFiles = {}
    /\ outManifest = <<>> /\ inspectManifest = <<>>

\* What may fail around a call: the getModuleByUrl lookups (named by url), the
\* ssrLoadModule of an input file (named by file) and of a style dependency
\* (named by node).
Fallible == Urls \cup Files \cup Nodes

\* any call may throw or return, at any time; env.cssModules maps the module style
AnyFailure ==
    {[cssModules |-> <<{FileOf("C")}>>, mayThrow |-> Fallible, mayReturn |-> Fallible]}

\* a stable environment: a call either always throws or always returns, and
\* env.cssModules is undefined, or an object with or without the module style
StableEnvs ==
    {[cssModules |-> cm, mayThrow |-> t, mayReturn |-> Fallible \ t] :
        cm \in {<<>>, <<{}>>, <<{FileOf("C")}>>}, t \in SubsetsUpTo(Fallible, MaxFaults)}

InitCall(gs, ms, es) ==
    /\ \E g \in gs :
        \E a \in OrdersOf(g, "A"), b \in OrdersOf(g, "B"), c \in OrdersOf(g, "C") :
            graph = Ordered(g, [n \in Nodes |-> CASE n = "A" -> a [] n = "B" -> b [] n = "C" -> c])
    /\ match \in ms
    /\ env \in es
    /\ call = 1
    /\ first = Pending
    /\ loadFailed = {}
    /\ byId = {"fa"}
    /\ fi = 1
    /\ pc = "file"
    /\ deps = <<>>
    /\ lookups = {}
    /\ children = {}
    /\ frameSt = [f \in Frames |-> "idle"]
    /\ expanded = [n \in Nodes |-> 0]
    /\ threw = FALSE
    /\ caught = FALSE
    /\ si = 1
    /\ styles = {}
    /\ result = Pending
    /\ BuildIdle
    /\ HandlerIdle
    /\ ClientIdle

\* one collectStyles call over several input files
Init == InitCall(GraphsUpTo(MaxStyleEdges), SeqsUpTo(Files, MaxFiles) \ {<<>>}, AnyFailure)

\* one collectStyles call with a single input file: one traversal from one root
InitWalk == InitCall(GraphsUpTo(MaxEdges), {<<f>> : f \in Files}, AnyFailure)

Next ==
    \/ FileFound
    \/ FileLoaded
    \/ FileLoadThrows
    \/ FileNotFound
    \/ LookupSettles
    \/ LookupThrows
    \/ StyleLoaded
    \/ StyleLoadThrows

Spec == Init /\ [][Next]_vars
SpecWalk == InitWalk /\ [][Next]_vars

\* the graphs of a repeated call: every module transformed, static imports only
RepeatGraphs ==
    {MkGraph(E, {}, [n \in Nodes |-> "deps"]) :
        E \in SubsetsUpTo(Nodes \X Urls, MaxRepeatEdges)}

\* collectStyles(match) is called a second time, once the first call has returned:
\* the module graph is as the first call left it, `styles` and `deps` are new
\* objects, and what is still outstanding of the first call only touches the old ones
CallAgain ==
    /\ call = 1
    /\ pc = "done"
    /\ call' = 2
    /\ first' = result
    /\ fi' = 1
    /\ pc' = "file"
    /\ deps' = <<>>
    /\ lookups' = {}
    /\ children' = {}
    /\ frameSt' = [f \in Frames |-> "idle"]
    /\ expanded' = [n \in Nodes |-> 0]
    /\ threw' = FALSE
    /\ caught' = FALSE
    /\ si' = 1
    /\ styles' = {}
    /\ result' = Pending
    /\ loadFailed' = {}
    /\ UNCHANGED <<graph, match, env, byId, buildVars, handlerVars, clientVars>>

\* two collectStyles calls with the same files in a stable environment
InitRepeat == InitCall(RepeatGraphs, {<<f>> : f \in Files}, StableEnvs)

NextRepeat ==
    \/ FileFound
    \/ FileLoaded
    \/ FileLoadThrows
    \/ FileNotFound
    \/ LookupSettles
    \/ LookupThrows
    \/ StyleLoaded
    \/ StyleLoadThrows
    \/ CallAgain

SpecRepeat == InitRepeat /\ [][NextRepeat]_vars

\* ------------------------------------------------------------- manifests
\* A manifest is a JavaScript object: a sequence of [k |-> key, v |-> value] in
\* insertion order, each key once. A key is its text split into pieces, so that
\* startsWith and endsWith are decided by the text.
RouteKey == <<"/", "foo">>
SlashIslandKey == <<"/", "foo", "?island">>
FileIslandKey == <<"src/", "Counter.tsx", "?island">>
EntryClient == <<"entry-client">>

\* k.startsWith("/")
startsWithSlash(k) == Len(k) > 0 /\ k[1] = "/"
\* k.endsWith("?island")
endsWithIsland(k) == Len(k) > 0 /\ k[Len(k)] = "?island"

Has(m, k) == \E i \in 1..Len(m) : m[i].k = k
Get(m, k) == m[CHOOSE i \in 1..Len(m) : m[i].k = k].v
Keys(m) == {m[i].k : i \in 1..Len(m)}

\* obj[k] = v: an existing key keeps its position
Put(m, k, v) ==
    IF Has(m, k)
    THEN [i \in 1..Len(m) |-> IF m[i].k = k THEN [k |-> k, v |-> v] ELSE m[i]]
    ELSE Append(m, [k |-> k, v |-> v])

\* { ...a, ...b }
RECURSIVE SpreadInto(_, _)
SpreadInto(m, es) ==
    IF es = <<>> THEN m
    ELSE SpreadInto(Put(m, Head(es).k, Head(es).v), Tail(es))

\* a value is an asset list (an array) or an island entry { script, assets }
List(as) == [kind |-> "list", assets |-> as]
Island(sc, as) == [kind |-> "island", script |-> sc, assets |-> as]

Asset(t, h) == [type |-> t, href |-> h]
\* a filter that hands back the kept assets in reverse order
OfType_Reversed(as, t) ==
    LET q == SelectSeq(as, LAMBDA a : a.type = t)
    IN  [i \in 1..Len(q) |-> q[Len(q) + 1 - i]]

\* as.filter(a => a.type === t)
OfType(as, t) == SelectSeq(as, LAMBDA a : a.type = t)
NotOfType(as, t) == SelectSeq(as, LAMBDA a : a.type # t)

\* the route filter keeping styles only
RouteAssets_StylesOnly(v) == OfType(v.assets, "style")

\* v.filter(a => a.type !== "script"), for a route entry of the first pass
RouteAssets(v) == NotOfType(v.assets, "script")

\* the island entry taking its styles from the island bundle
IslandAssets_OwnStyles(v, r) == OfType(v.assets, "script") \o OfType(v.assets, "style")

\* [...v.assets.filter(script), ...routeManifest[k].assets.filter(style)]
IslandAssets(v, r) == OfType(v.assets, "script") \o OfType(r.assets, "style")

\* entry-client as the plain concatenation of both builds' lists
EntryClientAssets_Unfiltered(iv, rv) == iv.assets \o rv.assets

\* [...islandsManifest["entry-client"].filter(script),
\*  ...routeManifest["entry-client"].filter(style)]
EntryClientAssets(iv, rv) == OfType(iv.assets, "script") \o OfType(rv.assets, "style")

RouteEntries(rm) == SelectSeq(rm, LAMBDA e : startsWithSlash(e.k))
IslandEntries(im) == SelectSeq(im, LAMBDA e : endsWithIsland(e.k))

\* whether building newManifest throws a TypeError: .filter of a value that is
\* no array, .assets of a missing entry, .filter of a missing assets field
MergeThrows(rm, im) ==
    \/ \E i \in 1..Len(rm) : startsWithSlash(rm[i].k) /\ rm[i].v.kind # "list"
    \/ \E i \in 1..Len(im) :
        /\ endsWithIsland(im[i].k)
        /\ \/ im[i].v.kind # "island"
           \/ ~Has(rm, im[i].k)
           \/ Get(rm, im[i].k).kind # "island"
    \/ ~Has(im, EntryClient) \/ ~Has(rm, EntryClient)
    \/ Get(im, EntryClient).kind # "list" \/ Get(rm, EntryClient).kind # "list"

\* newManifest of islandsClient
Merge(rm, im) ==
    LET routes  == [i \in 1..Len(RouteEntries(rm)) |->
                      [k |-> RouteEntries(rm)[i].k,
                       v |-> List(RouteAssets(RouteEntries(rm)[i].v))]]
        islands == [i \in 1..Len(IslandEntries(im)) |->
                      [k |-> IslandEntries(im)[i].k,
                       v |-> Island(IslandEntries(im)[i].v.script,
                                    IslandAssets(IslandEntries(im)[i].v,
                                                 Get(rm, IslandEntries(im)[i].k)))]]
        entry   == <<[k |-> EntryClient,
                      v |-> List(EntryClientAssets(Get(im, EntryClient), Get(rm, EntryClient)))]>>
    IN  SpreadInto(SpreadInto(SpreadInto(<<>>, routes), islands), entry)

\* every asset an entry list refers to, in Object.values order
RECURSIVE Flatten(_)
Flatten(m) == IF m = <<>> THEN <<>> ELSE Head(m).v.assets \o Flatten(Tail(m))

\* every file a manifest refers to: its asset lists and the script of its islands
Hrefs(m) ==
    {Flatten(m)[i].href : i \in 1..Len(Flatten(m))}
    \cup {m[i].v.script.href : i \in {j \in 1..Len(m) : m[j].v.kind = "island"}}

\* the copyFileSync loop over the assets `as`: the files of the final directory
\* afterwards, and whether a copy threw because its source is missing
RECURSIVE copyStyles(_, _, _)
copyStyles(as, staging, out) ==
    IF as = <<>> THEN [ok |-> TRUE, out |-> out]
    ELSE IF Head(as).type = "style"
         THEN IF Head(as).href \in staging
              THEN copyStyles(Tail(as), staging, out \cup {Head(as).href})
              ELSE [ok |-> FALSE, out |-> out]
         ELSE copyStyles(Tail(as), staging, out)

\* ------------------------------------------------------------- build inputs
PoolP == {Asset("script", "b.js"), Asset("style", "a.css"), Asset("link", "p.woff")}
PoolI == {Asset("script", "c.js"), Asset("style", "d.css")}

Injective(q) == \A i, j \in 1..Len(q) : q[i] = q[j] => i = j
ListsP == {q \in SeqsUpTo(PoolP, MaxAssets) : Injective(q)}
ListsI == {q \in SeqsUpTo(PoolI, MaxAssets) : Injective(q)}

\* the shapes an island key takes in a manifest: absent, an asset list, an island entry
Shaped(k, shape, sc, as) ==
    CASE shape = "absent" -> <<>>
      [] shape = "list"   -> <<[k |-> k, v |-> List(as)]>>
      [] shape = "island" -> <<[k |-> k, v |-> Island(Asset("script", sc), as)]>>

\* route manifests of the first pass
PrimaryManifests(ik) ==
    {<<[k |-> RouteKey, v |-> List(l1)]>> \o Shaped(ik, sh, "b0.js", l2) \o Shaped(EntryClient, ec, "", l2) :
        l1 \in ListsP, l2 \in ListsP, sh \in {"absent", "list", "island"}, ec \in {"absent", "list"}}

\* prepareManifest(ssrManifest, assetManifest, config, islands) of the islands pass
IslandManifests(ik) ==
    {Shaped(ik, sh, "c0.js", l) \o Shaped(EntryClient, ec, "", l) :
        l \in ListsI, sh \in {"absent", "island"}, ec \in {"absent", "list"}}

NoFile == <<>>
File(content) == <<content>>

\* what the callback persists as route-manifest.json
ToWrite == IF cb = "islandsClient" THEN newManifest ELSE routeManifest

WalkIdle ==
    /\ graph = [n \in Nodes |-> [tr |-> "nodeps", deps |-> {}, importedModules |-> <<>>]]
    /\ match = <<>> /\ byId = {} /\ fi = 0 /\ pc = None /\ deps = <<>>
    /\ lookups = {} /\ children = {} /\ frameSt = [f \in Frames |-> "idle"]
    /\ expanded = [n \in Nodes |-> 0] /\ threw = FALSE /\ caught = FALSE
    /\ si = 0 /\ styles = {} /\ result = Pending
    /\ loadFailed = {} /\ env = [cssModules |-> <<>>, mayThrow |-> {}, mayReturn |-> {}]
    /\ call = 0 /\ first = Pending

\* one invocation of a build callback: the bundler has written the assets of its
\* manifest to its output directory
InitBuild ==
    /\ WalkIdle
    /\ HandlerIdle
    /\ ClientIdle
    /\ cb \in {"islandsClient", "client", "spaClient"}
    /\ bpc = "start" /\ berr = None
    /\ \E ik \in {SlashIslandKey, FileIslandKey} :
        /\ routeManifest \in PrimaryManifests(ik)
        /\ IF cb = "islandsClient"
           THEN islandsManifest \in IslandManifests(ik)
           ELSE ik = FileIslandKey /\ islandsManifest = <<>>
    /\ newManifest = <<>>
    /\ IF cb = "islandsClient"
       THEN /\ stagingFiles \in {Hrefs(routeManifest) \ miss :
                                    miss \in {{}, {"a.css"}}}
            /\ outFiles = Hrefs(islandsManifest)
       ELSE /\ stagingFiles = {}
            /\ outFiles = Hrefs(routeManifest)
    /\ outManifest = NoFile
    /\ inspectManifest = NoFile

Fail(step) == bpc' = "failed" /\ berr' = step

\* vite.build, reading manifest.json / ssr-manifest.json or prepareManifest throws
BuildThrows ==
    /\ bpc = "start"
    /\ Fail("build")
    /\ UNCHANGED <<cb, routeManifest, islandsManifest, newManifest, stagingFiles,
                   outFiles, outManifest, inspectManifest, walkVars, handlerVars, clientVars>>

\* islandsClient: let newManifest = { ... }
MergeManifests ==
    /\ bpc = "start" /\ cb = "islandsClient"
    /\ IF MergeThrows(routeManifest, islandsManifest)
       THEN Fail("TypeError") /\ newManifest' = newManifest
       ELSE /\ newManifest' = Merge(routeManifest, islandsManifest)
            /\ bpc' = "merged" /\ berr' = berr
    /\ UNCHANGED <<cb, routeManifest, islandsManifest, stagingFiles,
                   outFiles, outManifest, inspectManifest, walkVars, handlerVars, clientVars>>

\* islandsClient persisting the manifest before the copy loop
CopyStyles_WriteFirst ==
    /\ bpc = "merged"
    /\ outManifest' = File(newManifest)
    /\ LET r == copyStyles(Flatten(newManifest), stagingFiles, outFiles)
       IN  /\ outFiles' = r.out
           /\ IF r.ok THEN bpc' = "copied" /\ berr' = berr ELSE Fail("copy")
    /\ UNCHANGED <<cb, routeManifest, islandsManifest, newManifest, stagingFiles,
                   inspectManifest, walkVars, handlerVars, clientVars>>

\* islandsClient: Object.values(newManifest).forEach(... copyFileSync ...)
CopyStyles ==
    /\ bpc = "merged"
    /\ LET r == copyStyles(Flatten(newManifest), stagingFiles, outFiles)
       IN  /\ outFiles' = r.out
           /\ IF r.ok THEN bpc' = "copied" /\ berr' = berr ELSE Fail("copy")
    /\ UNCHANGED <<cb, routeManifest, islandsManifest, newManifest, stagingFiles,
                   outManifest, inspectManifest, walkVars, handlerVars, clientVars>>

\* client, spaClient: let routeManifest = prepareManifest(ssrManifest, assetManifest, config)
Prepared ==
    /\ bpc = "start" /\ cb \in {"client", "spaClient"}
    /\ bpc' = "copied"
    /\ UNCHANGED <<cb, berr, routeManifest, islandsManifest, newManifest, stagingFiles,
                   outFiles, outManifest, inspectManifest, walkVars, handlerVars, clientVars>>

\* writeFileSync(join(path, "route-manifest.json"), ...)
WriteOut ==
    /\ bpc = "copied"
    /\ outManifest' = File(ToWrite)
    /\ bpc' = "wroteOut"
    /\ UNCHANGED <<cb, berr, routeManifest, islandsManifest, newManifest, stagingFiles,
                   outFiles, inspectManifest, walkVars, handlerVars, clientVars>>

WriteOutThrows ==
    /\ bpc = "copied"
    /\ Fail("writeOut")
    /\ UNCHANGED <<cb, routeManifest, islandsManifest, newManifest, stagingFiles,
                   outFiles, outManifest, inspectManifest, walkVars, handlerVars, clientVars>>

\* writeFileSync(join(inspect, "route-manifest.json"), ...)
WriteInspect ==
    /\ bpc = "wroteOut"
    /\ inspectManifest' = File(ToWrite)
    /\ bpc' = "wroteInspect"
    /\ UNCHANGED <<cb, berr, routeManifest, islandsManifest, newManifest, stagingFiles,
                   outFiles, outManifest, walkVars, handlerVars, clientVars>>

WriteInspectThrows ==
    /\ bpc = "wroteOut"
    /\ Fail("writeInspect")
    /\ UNCHANGED <<cb, routeManifest, islandsManifest, newManifest, stagingFiles,
                   outFiles, outManifest, inspectManifest, walkVars, handlerVars, clientVars>>

\* the writes of inspect/manifest.json and inspect/ssr-manifest.json
WriteRest ==
    /\ bpc = "wroteInspect"
    /\ bpc' = "done"
    /\ UNCHANGED <<cb, berr, routeManifest, islandsManifest, newManifest, stagingFiles,
                   outFiles, outManifest, inspectManifest, walkVars, handlerVars, clientVars>>

WriteRestThrows ==
    /\ bpc = "wroteInspect"
    /\ Fail("writeRest")
    /\ UNCHANGED <<cb, routeManifest, islandsManifest, newManifest, stagingFiles,
                   outFiles, outManifest, inspectManifest, walkVars, handlerVars, clientVars>>

NextBuild ==
    \/ BuildThrows
    \/ MergeManifests
    \/ CopyStyles
    \/ Prepared
    \/ WriteOut
    \/ WriteOutThrows
    \/ WriteInspect
    \/ WriteInspectThrows
    \/ WriteRest
    \/ WriteRestThrows

SpecBuild == InitBuild /\ [][NextBuild]_vars

\* asset lists with several scripts and several styles, each asset at most once
OrderPoolP == {Asset("script", "b.js"), Asset("style", "a1.css"), Asset("style", "a2.css"),
               Asset("link", "p.woff")}
OrderPoolI == {Asset("script", "c1.js"), Asset("script", "c2.js"), Asset("style", "d.css")}
OrderListsP == {q \in SeqsUpTo(OrderPoolP, MaxMergeAssets) : Injective(q)}
OrderListsI == {q \in SeqsUpTo(OrderPoolI, MaxMergeAssets) : Injective(q)}

\* islandsClient at the merge, with manifests of the shapes the merge accepts
InitMerge ==
    /\ WalkIdle
    /\ HandlerIdle
    /\ ClientIdle
    /\ cb = "islandsClient"
    /\ bpc = "start" /\ berr = None
    /\ routeManifest \in
          {<<[k |-> RouteKey, v |-> List(l1)]>>
             \o Shaped(FileIslandKey, "island", "b0.js", l2)
             \o Shaped(EntryClient, "list", "", l1) :
                l1 \in OrderListsP, l2 \in OrderListsP}
    /\ islandsManifest \in
          {Shaped(FileIslandKey, "island", "c0.js", l) \o Shaped(EntryClient, "list", "", l) :
                l \in OrderListsI}
    /\ newManifest = <<>>
    /\ stagingFiles = Hrefs(routeManifest)
    /\ outFiles = Hrefs(islandsManifest)
    /\ outManifest = NoFile
    /\ inspectManifest = NoFile

NextMerge ==
    \/ MergeManifests
    \/ CopyStyles

SpecMerge == InitMerge /\ [][NextMerge]_vars

\* ------------------------------------------------------------- startHandler
\* A thrown value: a string, or an Error with a message and a stack.
Errors ==
    {[kind |-> "string", text |-> "boom", stack |-> ""],
     [kind |-> "Error", text |-> "render failed", stack |-> "Error: render failed at render"]}

\* the TypeError of res.setHeader for a header it rejects
HeaderError ==
    [kind |-> "Error", text |-> "Invalid character in header content",
     stack |-> "TypeError: Invalid character in header content at setHeader"]

Statuses == {200, 302, 404}
HeaderNames == <<"content-type", "location", "set-cookie">>
Urls_req == {"/", "/foo"}

\* webRes.body: <<>> for null, <<chunks>> for a stream of chunks
NullBody == <<>>
Stream(chunks) == <<chunks>>

\* the responses devFetch may resolve with
WebResponses ==
    {[status |-> st, headers |-> SubSeq(HeaderNames, 1, k), body |-> b] :
        st \in Statuses, k \in 0..MaxHeaders,
        b \in {NullBody} \cup {Stream([i \in 1..n |-> <<"chunk", i>>]) : n \in 0..MaxChunks}}

\* prepareError(req, e)
prepareError(r, e) ==
    [message |-> <<"An error occured while server rendering ", r.url, ":\n\n\t",
                   e.text, " ">>,
     stack |-> IF e.kind = "string" THEN "" ELSE e.stack]

\* the error page: the ErrorOverlay script around JSON.stringify(prepareError(req, e))
ErrorPage(payload) == <<"ErrorOverlay", payload>>

\* ServerResponse: the status line and the headers go out with the first write or
\* with end, with the statusCode and the headers the response has at that moment
Flush(r) ==
    IF r.headersSent THEN r
    ELSE [r EXCEPT !.headersSent = TRUE, !.wireStatus = r.statusCode,
                   !.wireHeaders = r.headers]

\* res.write(chunk)
Write(r, chunk) == [Flush(r) EXCEPT !.body = Append(@, chunk)]

\* res.end() and res.end(data)
End(r) == [Flush(r) EXCEPT !.ended = TRUE]
EndWith(r, data) == [Write(r, data) EXCEPT !.ended = TRUE]

\* the catch block: res.statusCode = 500; res.end(page); throw e
Catch(r, e) ==
    /\ res' = EndWith([r EXCEPT !.statusCode = 500], ErrorPage(prepareError(req, e)))
    /\ hpc' = "failed"
    /\ rethrown' = <<e>>

\* devFetch resolves: status and headers are set on res, and the body is piped
\* into res, or res is ended when there is no body
FetchReturns ==
    /\ hpc = "fetch"
    /\ \E w \in WebResponses :
        LET r1 == [res EXCEPT !.statusCode = w.status, !.headers = Range(w.headers)]
        IN  /\ webRes' = w
            /\ IF w.body = NullBody
               THEN res' = End(r1) /\ hpc' = "done"
               ELSE res' = r1 /\ hpc' = "stream"
    /\ UNCHANGED <<req, written, rethrown, walkVars, buildVars, clientVars>>

\* devFetch (or createRequest before it) throws
FetchThrows ==
    /\ hpc = "fetch"
    /\ \E e \in Errors : Catch(res, e)
    /\ UNCHANGED <<req, webRes, written, walkVars, buildVars, clientVars>>

\* devFetch resolves and res.setHeader throws on the j-th header
SetHeaderThrows ==
    /\ hpc = "fetch"
    /\ \E w \in WebResponses : \E j \in 1..Len(w.headers) :
        /\ webRes' = w
        /\ Catch([res EXCEPT !.statusCode = w.status,
                             !.headers = Range(SubSeq(w.headers, 1, j - 1))],
                 HeaderError)
    /\ UNCHANGED <<req, written, walkVars, buildVars, clientVars>>

\* the pipe writes the next chunk of the body to res
StreamChunk ==
    /\ hpc = "stream"
    /\ written < Len(webRes.body[1])
    /\ written' = written + 1
    /\ res' = Write(res, webRes.body[1][written + 1])
    /\ UNCHANGED <<hpc, req, webRes, rethrown, walkVars, buildVars, clientVars>>

\* the body ends: the pipe ends res, and once(readable, "end") resolves
StreamEnds ==
    /\ hpc = "stream"
    /\ written = Len(webRes.body[1])
    /\ res' = End(res)
    /\ hpc' = "done"
    /\ UNCHANGED <<req, webRes, written, rethrown, walkVars, buildVars, clientVars>>

\* the body stream emits an error: once(readable, "end") rejects
StreamThrows ==
    /\ hpc = "stream"
    /\ \E e \in Errors : Catch(res, e)
    /\ UNCHANGED <<req, webRes, written, walkVars, buildVars, clientVars>>

\* one request arrives at startHandler
InitHandler ==
    /\ WalkIdle
    /\ BuildIdle
    /\ ClientIdle
    /\ hpc = "fetch"
    /\ req \in {[url |-> u] : u \in Urls_req}
    /\ webRes = <<>>
    /\ res = [statusCode |-> 200, headers |-> {}, headersSent |-> FALSE,
              wireStatus |-> 0, wireHeaders |-> {}, body |-> <<>>, ended |-> FALSE]
    /\ written = 0
    /\ rethrown = <<>>

NextHandler ==
    \/ FetchReturns
    \/ FetchThrows
    \/ SetHeaderThrows
    \/ StreamChunk
    \/ StreamEnds
    \/ StreamThrows

SpecHandler == InitHandler /\ [][NextHandler]_vars

\* ------------------------------------------------------------- createRouteAction
\* what submit is called with: a value, the empty string, nothing (void action)
Inputs == {"a", "", JsUndefined}

\* what the promise of the action function fulfils with: data, nothing, a
\* Response that is no redirect, a redirect
Fulfilments == {"d", JsUndefined, "response", "redirect"}

\* what it rejects with
Rejections == {"err", JsUndefined, "response", "redirect"}

\* what a rejected handleResponse / handleRefetch rejects with
RefetchError == "refetch failed"

\* get pending() { return !!input() && !result(); }
pending == Truthy(input) /\ actionResult = NoResult

\* a submission: its input, where its completion handler is ("flight": the
\* promise of fn has not settled; "then", "catch": the handler is suspended in
\* handleResponse / handleRefetch; "done"; "handlerFailed": handleResponse /
\* handleRefetch rejected), and what the promise settled with
Submission(v) == [input |-> v, st |-> "flight", out |-> JsUndefined]

\* if (reqId === count), for the submission with reqId i
isLatest(i) == i = count

\* the body of submit(variables) up to `return p.then(...)`
startSubmit(v) ==
    /\ fnCalls' = fnCalls + 1
    /\ count' = count + 1
    /\ actionResult' = NoResult
    /\ input' = v
    /\ subs' = Append(subs, Submission(v))

\* submit(variables)
Submit ==
    /\ lastCall # None
    /\ count < MaxSubmits
    /\ \E v \in Inputs : startSubmit(v)
    /\ lastCall' = "submit"
    /\ UNCHANGED <<retries, walkVars, buildVars, handlerVars, multiVars, serverVars>>

\* retry() with a truthy recorded input: submit(variables)
Retry ==
    /\ lastCall # None
    /\ count < MaxSubmits /\ retries < MaxRetries
    /\ Truthy(input)
    /\ startSubmit(input)
    /\ retries' = retries + 1
    /\ lastCall' = "retry"
    /\ UNCHANGED <<walkVars, buildVars, handlerVars, multiVars, serverVars>>

\* retry() with a falsy recorded input: throw new Error("No submission to retry")
RetryThrows ==
    /\ lastCall # None
    /\ retries < MaxRetries
    /\ ~Truthy(input)
    /\ retries' = retries + 1
    /\ lastCall' = "retryThrew"
    /\ UNCHANGED <<input, actionResult, count, subs, fnCalls, walkVars, buildVars,
                   handlerVars, multiVars, serverVars>>

\* clear()
Clear ==
    /\ lastCall # None
    /\ input' = JsUndefined
    /\ actionResult' = NoResult
    /\ lastCall' = "clear"
    /\ UNCHANGED <<count, subs, fnCalls, retries, walkVars, buildVars, handlerVars, multiVars, serverVars>>

\* the promise of submission i fulfils: the then handler tests reqId === count
\* and suspends in `await handleResponse(...)` or `await handleRefetch(...)`
Fulfils ==
    /\ \E i \in 1..Len(subs) : \E x \in Fulfilments :
        /\ subs[i].st = "flight"
        /\ subs' = [subs EXCEPT ![i].st = IF isLatest(i) THEN "then" ELSE "done",
                                ![i].out = x]
    /\ UNCHANGED <<input, actionResult, count, fnCalls, retries, lastCall, walkVars,
                   buildVars, handlerVars, multiVars, serverVars>>

\* the then handler resumes after its await:
\* if (!data || isRedirectResponse(data)) setInput(undefined); else setResult({ data })
ThenResumes ==
    /\ \E i \in 1..Len(subs) :
        /\ subs[i].st = "then"
        /\ subs' = [subs EXCEPT ![i].st = "done"]
        /\ IF ~Truthy(subs[i].out) \/ isRedirectResponse(subs[i].out)
           THEN input' = JsUndefined /\ actionResult' = actionResult
           ELSE input' = input /\ actionResult' = DataResult(subs[i].out)
    /\ UNCHANGED <<count, fnCalls, retries, lastCall, walkVars, buildVars, handlerVars, multiVars, serverVars>>

\* handleResponse / handleRefetch of the then handler rejects (handleResponse
\* does nothing for a Response that is no redirect): the catch handler runs with
\* that error, which is no Response
ThenThrows ==
    /\ \E i \in 1..Len(subs) :
        /\ subs[i].st = "then"
        /\ subs[i].out # "response"
        /\ subs' = [subs EXCEPT ![i].st = "handlerFailed"]
        /\ IF isLatest(i)
           THEN actionResult' = ErrorResult(RefetchError)
           ELSE actionResult' = actionResult
    /\ UNCHANGED <<input, count, fnCalls, retries, lastCall, walkVars, buildVars,
                   handlerVars, multiVars, serverVars>>

\* the promise of submission i rejects: the catch handler tests reqId === count,
\* suspends in `await handleResponse(e, ...)` when e is a Response, and records
\* the error otherwise
Rejects ==
    /\ \E i \in 1..Len(subs) : \E e \in Rejections :
        /\ subs[i].st = "flight"
        /\ subs' = [subs EXCEPT ![i].st = IF isLatest(i) /\ isResponse(e) THEN "catch"
                                          ELSE "done",
                                ![i].out = e]
        /\ IF isLatest(i) /\ ~isResponse(e)
           THEN actionResult' = ErrorResult(e)
           ELSE actionResult' = actionResult
    /\ UNCHANGED <<input, count, fnCalls, retries, lastCall, walkVars, buildVars,
                   handlerVars, multiVars, serverVars>>

\* the catch handler resumes after `await handleResponse(e, ...)`:
\* if (!isRedirectResponse(e)) setResult({ error: e }); else setInput(undefined)
CatchResumes ==
    /\ \E i \in 1..Len(subs) :
        /\ subs[i].st = "catch"
        /\ subs' = [subs EXCEPT ![i].st = "done"]
        /\ IF ~isRedirectResponse(subs[i].out)
           THEN input' = input /\ actionResult' = ErrorResult(subs[i].out)
           ELSE input' = JsUndefined /\ actionResult' = actionResult
    /\ UNCHANGED <<count, fnCalls, retries, lastCall, walkVars, buildVars, handlerVars, multiVars, serverVars>>

\* handleResponse of the catch handler rejects, for a redirect: nothing is recorded
CatchThrows ==
    /\ \E i \in 1..Len(subs) :
        /\ subs[i].st = "catch"
        /\ isRedirectResponse(subs[i].out)
        /\ subs' = [subs EXCEPT ![i].st = "handlerFailed"]
    /\ UNCHANGED <<input, actionResult, count, fnCalls, retries, lastCall, walkVars,
                   buildVars, handlerVars, multiVars, serverVars>>

\* the Map checkFlash builds from the entries of the `form` search parameter
FlashedInput == "form"

\* checkFlash(fn): nothing when the URL holds no form of this action, else the
\* flashed input and a result object whose error is a FormError or undefined
checkFlash ==
    {[input |-> JsUndefined, result |-> NoResult]}
    \cup {[input |-> FlashedInput, result |-> ErrorResult(e)] : e \in {"FormError", JsUndefined}}

\* createRouteAction(fn): the signals start with what checkFlash found
InitAction ==
    /\ WalkIdle
    /\ BuildIdle
    /\ HandlerIdle
    /\ MultiIdle
    /\ ServerIdle
    /\ \E init \in checkFlash : input = init.input /\ actionResult = init.result
    /\ count = 0 /\ subs = <<>> /\ fnCalls = 0 /\ retries = 0
    /\ lastCall = "create"

NextAction ==
    \/ Submit
    \/ Retry
    \/ RetryThrows
    \/ Clear
    \/ Fulfils
    \/ ThenResumes
    \/ ThenThrows
    \/ Rejects
    \/ CatchResumes
    \/ CatchThrows

SpecAction == InitAction /\ [][NextAction]_vars

\* ------------------------------------------------------------- createRouteMultiAction
\* most submission objects of one multi action
MaxSubmissions == 2
\* most promises handed to handleSubmit (by submit and by retry)
MaxFlights == 2

\* the inputs of submit: primitive values (ref 0), compared by value, and objects,
\* compared by identity (ref), two of which have equal contents
MultiInputs ==
    {[ref |-> 0, val |-> "a"], [ref |-> 1, val |-> "x"], [ref |-> 2, val |-> "x"]}

\* the Map checkFlash builds from the `form` search parameter
FlashInput == [ref |-> 3, val |-> "form"]

\* the `body` of a Response: a stream, or null for a redirect
Body(x) == IF x = "response" THEN "body" ELSE JsUndefined

\* createSubmission(variables): the `result` signal starts undefined
createSubmission(v) == [input |-> v, res |-> NoResult]

\* a promise handed to handleSubmit; what it settled with is kept until its
\* handler has run
Flight(i) == [sub |-> i, st |-> "flight", out |-> JsUndefined]

\* the bit every call on the multi action flips
Called(op, i) == [op |-> op, sub |-> i, tick |-> 1 - mlast.tick]

\* submission.clear(): v.filter(i => i.input !== variables)
clearFilter(list, i) == SelectSeq(list, LAMBDA j : made[j].input # made[i].input)

\* the Proxy's `pending`: submissions().filter(sub => !sub.result)
pendingSubmissions == SelectSeq(submissions, LAMBDA j : made[j].res.kind # "data")

\* submit(variables) without an event throws
MultiSubmitThrows ==
    /\ ~event
    /\ mlast' = Called("submitThrew", 0)
    /\ UNCHANGED <<event, submissions, made, flights, walkVars, buildVars, handlerVars, actionVars, serverVars>>

\* submit(variables): a new submission is listed and its promise handled
MultiSubmit ==
    /\ event
    /\ Len(made) < MaxSubmissions /\ Len(flights) < MaxFlights
    /\ \E v \in MultiInputs :
        /\ made' = Append(made, createSubmission(v))
        /\ submissions' = Append(submissions, Len(made) + 1)
        /\ flights' = Append(flights, Flight(Len(made) + 1))
        /\ mlast' = Called("submit", Len(made) + 1)
    /\ UNCHANGED <<event, walkVars, buildVars, handlerVars, actionVars, serverVars>>

\* submission.clear() called on a submission object, listed or not
MultiClear ==
    /\ \E i \in 1..Len(made) :
        /\ submissions' = clearFilter(submissions, i)
        /\ mlast' = Called("clear", i)
    /\ UNCHANGED <<event, made, flights, walkVars, buildVars, handlerVars, actionVars, serverVars>>

\* submission.retry() called on a submission object, listed or not
MultiRetry ==
    /\ event => Len(flights) < MaxFlights
    /\ \E i \in 1..Len(made) :
        /\ made' = [made EXCEPT ![i].res = NoResult]
        /\ flights' = IF event THEN Append(flights, Flight(i)) ELSE flights
        /\ mlast' = Called("retry", i)
    /\ UNCHANGED <<event, submissions, walkVars, buildVars, handlerVars, actionVars, serverVars>>

\* a promise fulfils: the then handler awaits handleResponse / handleRefetch
MultiFulfils ==
    /\ \E f \in 1..Len(flights), d \in Fulfilments :
        /\ flights[f].st = "flight"
        /\ flights' = [flights EXCEPT ![f] = [@ EXCEPT !.st = "then", !.out = d]]
    /\ UNCHANGED <<event, submissions, made, mlast, walkVars, buildVars, handlerVars, actionVars, serverVars>>

\* the then handler resumes: data ? setResult({ data }) : submission.clear()
MultiThenResumes ==
    /\ \E f \in 1..Len(flights) :
        LET i == flights[f].sub
            data == IF isResponse(flights[f].out) THEN Body(flights[f].out) ELSE flights[f].out
        IN  /\ flights[f].st = "then"
            /\ flights' = [flights EXCEPT ![f] = [@ EXCEPT !.st = "done", !.out = JsUndefined]]
            /\ IF Truthy(data)
               THEN /\ made' = [made EXCEPT ![i].res = DataResult(data)]
                    /\ UNCHANGED <<submissions, mlast>>
               ELSE /\ submissions' = clearFilter(submissions, i)
                    /\ mlast' = Called("settledClear", i)
                    /\ UNCHANGED made
    /\ UNCHANGED <<event, walkVars, buildVars, handlerVars, actionVars, serverVars>>

\* handleResponse / handleRefetch of the then handler rejects (handleResponse
\* does nothing for a Response that is no redirect): the catch handler runs with
\* that error
MultiThenThrows ==
    /\ \E f \in 1..Len(flights) :
        /\ flights[f].st = "then"
        /\ flights[f].out # "response"
        /\ flights' = [flights EXCEPT ![f] = [@ EXCEPT !.st = "catch", !.out = RefetchError]]
    /\ UNCHANGED <<event, submissions, made, mlast, walkVars, buildVars, handlerVars, actionVars, serverVars>>

\* a promise rejects: the catch handler awaits handleResponse / handleRefetch
MultiRejects ==
    /\ \E f \in 1..Len(flights), e \in Rejections :
        /\ flights[f].st = "flight"
        /\ flights' = [flights EXCEPT ![f] = [@ EXCEPT !.st = "catch", !.out = e]]
    /\ UNCHANGED <<event, submissions, made, mlast, walkVars, buildVars, handlerVars, actionVars, serverVars>>

\* the catch handler resumes: setResult({ error: e }), or submission.clear()
\* for a redirect
MultiCatchResumes ==
    /\ \E f \in 1..Len(flights) :
        LET i == flights[f].sub
            e == flights[f].out
        IN  /\ flights[f].st = "catch"
            /\ flights' = [flights EXCEPT ![f] = [@ EXCEPT !.st = "done", !.out = JsUndefined]]
            /\ IF ~isRedirectResponse(e)
               THEN /\ made' = [made EXCEPT ![i].res = ErrorResult(e)]
                    /\ UNCHANGED <<submissions, mlast>>
               ELSE /\ submissions' = clearFilter(submissions, i)
                    /\ mlast' = Called("settledClear", i)
                    /\ UNCHANGED made
    /\ UNCHANGED <<event, walkVars, buildVars, handlerVars, actionVars, serverVars>>

\* handleResponse / handleRefetch of the catch handler rejects: nothing is recorded
MultiCatchThrows ==
    /\ \E f \in 1..Len(flights) :
        /\ flights[f].st = "catch"
        /\ flights[f].out # "response"
        /\ flights' = [flights EXCEPT ![f] = [@ EXCEPT !.st = "handlerFailed", !.out = JsUndefined]]
    /\ UNCHANGED <<event, submissions, made, mlast, walkVars, buildVars, handlerVars, actionVars, serverVars>>

\* createRouteMultiAction(fn): one submission, without a promise, when checkFlash
\* found the form of this action in the URL
InitMulti ==
    /\ WalkIdle
    /\ BuildIdle
    /\ HandlerIdle
    /\ ActionIdle
    /\ ServerIdle
    /\ event \in BOOLEAN
    /\ \E flash \in BOOLEAN :
        /\ made = IF flash THEN <<createSubmission(FlashInput)>> ELSE <<>>
        /\ submissions = IF flash THEN <<1>> ELSE <<>>
    /\ flights = <<>>
    /\ mlast = [op |-> "create", sub |-> 0, tick |-> 0]

NextMulti ==
    \/ MultiSubmitThrows
    \/ MultiSubmit
    \/ MultiClear
    \/ MultiRetry
    \/ MultiFulfils
    \/ MultiThenResumes
    \/ MultiThenThrows
    \/ MultiRejects
    \/ MultiCatchResumes
    \/ MultiCatchThrows

SpecMulti == InitMulti /\ [][NextMulti]_vars

\* ------------------------------------------------------------- server$.call
\* the values of the X-SolidStart-Response-Type header; "null" when it is absent
ResponseTypes == {"null", "throw", "return"}

\* the values of the X-SolidStart-Content-Type header; "" when it is absent
SolidContentTypes ==
    {"", "application/json", "text/plain", "server-error", "form-error", "error",
     "response", "application/octet-stream"}

\* the values of the Content-Type header; "" when it is absent
ContentTypes == {"", "application/json", "text/html"}

\* the statuses of a server response
CallStatuses == {200, 204, 500}

\* the values of the Location header; "" when it is absent
Locations == {"", "/login"}

\* the bodies of a server response: a JSON object with an `error` member, a JSON
\* object without one, a text that is no JSON, nothing
Bodies == {"{\"error\":{\"message\":\"m\"}}", "{}", "oops", ""}

\* the server responses fetch can resolve with
ServerResponses ==
    [rtype : ResponseTypes, xct : SolidContentTypes, ct : ContentTypes,
     status : CallStatuses, location : Locations, body : Bodies]

\* contentType.includes(w), for the content types above
includes(contentType, w) ==
    CASE contentType \in {"application/json"} -> w = "json"
      [] contentType \in {"text/plain", "text/html"} -> w = "text"
      [] contentType = "server-error" -> w \in {"server-error", "error"}
      [] contentType = "form-error" -> w \in {"form-error", "error"}
      [] contentType = "error" -> w = "error"
      [] contentType = "response" -> w = "response"
      [] OTHER -> FALSE

\* a value parseResponse returns, or the error it throws
Value(kind, v, status) == [kind |-> kind, v |-> v, status |-> status]
Thrown(name) == Value("threw", name, 0)

\* JSON.parse(text) / response.json() succeeds
isJson(text) == text \in {"{\"error\":{\"message\":\"m\"}}", "{}"}

\* the parsed JSON has an `error` member
hasError(text) == text = "{\"error\":{\"message\":\"m\"}}"

\* await response.json(), then new ServerError / FormError / Error(data.error.message)
errorOf(kind, r) ==
    IF ~isJson(r.body) THEN Thrown("SyntaxError")
    ELSE IF ~hasError(r.body) THEN Thrown("TypeError")
    ELSE Value(kind, "m", IF kind = "ServerError" THEN r.status ELSE 0)

\* the tail of the "response" branch and of the last branch
responseOrRedirect(r) ==
    IF r.status = 204 /\ r.location # ""
    THEN Value("redirect", r.location, 302)
    ELSE Value("response", r.body, r.status)

\* parseResponse(request, response)
parseResponse(r) ==
    LET contentType == IF r.xct # "" THEN r.xct ELSE r.ct
    IN  IF includes(contentType, "json")
        THEN IF isJson(r.body) THEN Value("json", r.body, 0) ELSE Thrown("SyntaxError")
        ELSE IF includes(contentType, "text") THEN Value("text", r.body, 0)
        ELSE IF includes(contentType, "server-error") THEN errorOf("ServerError", r)
        ELSE IF includes(contentType, "form-error") THEN errorOf("FormError", r)
        ELSE IF includes(contentType, "error") THEN errorOf("Error", r)
        ELSE IF includes(contentType, "response") THEN responseOrRedirect(r)
        ELSE IF r.status = 200 /\ isJson(r.body) THEN Value("json", r.body, 0)
        ELSE responseOrRedirect(r)

\* a test of the response-type header that never asks for a throw
isThrow_Never(r) == FALSE

\* response.headers.get(XSolidStartResponseTypeHeader) === "throw"
isThrow(r) == r.rtype = "throw"

\* server$.call(route, init) is called: the request is sent
Call ==
    /\ spc = None
    /\ spc' = "fetch"
    /\ UNCHANGED <<response, outcome, walkVars, buildVars, handlerVars, actionVars, multiVars>>

\* fetch rejects: so does the call
FetchRejects ==
    /\ spc = "fetch"
    /\ spc' = "done"
    /\ outcome' = [how |-> "rejects", value |-> Thrown("TypeError: Failed to fetch")]
    /\ UNCHANGED <<response, walkVars, buildVars, handlerVars, actionVars, multiVars>>

\* fetch resolves with a response
FetchResolves ==
    /\ spc = "fetch"
    /\ spc' = "parse"
    /\ response' \in ServerResponses
    /\ UNCHANGED <<outcome, walkVars, buildVars, handlerVars, actionVars, multiVars>>

\* parseResponse throws: the call rejects with that error
ParseThrows ==
    /\ spc = "parse"
    /\ parseResponse(response).kind = "threw"
    /\ spc' = "done"
    /\ outcome' = [how |-> "rejects", value |-> parseResponse(response)]
    /\ UNCHANGED <<response, walkVars, buildVars, handlerVars, actionVars, multiVars>>

\* throw await parseResponse(request, response)
CallThrows ==
    /\ spc = "parse"
    /\ parseResponse(response).kind # "threw"
    /\ isThrow(response)
    /\ spc' = "done"
    /\ outcome' = [how |-> "rejects", value |-> parseResponse(response)]
    /\ UNCHANGED <<response, walkVars, buildVars, handlerVars, actionVars, multiVars>>

\* return await parseResponse(request, response)
CallReturns ==
    /\ spc = "parse"
    /\ parseResponse(response).kind # "threw"
    /\ ~isThrow(response)
    /\ spc' = "done"
    /\ outcome' = [how |-> "resolves", value |-> parseResponse(response)]
    /\ UNCHANGED <<response, walkVars, buildVars, handlerVars, actionVars, multiVars>>

InitServerCall ==
    /\ WalkIdle
    /\ BuildIdle
    /\ HandlerIdle
    /\ ActionIdle
    /\ MultiIdle
    /\ ServerIdle

NextServerCall ==
    \/ Call
    \/ FetchRejects
    \/ FetchResolves
    \/ ParseThrows
    \/ CallThrows
    \/ CallReturns

SpecServerCall == InitServerCall /\ [][NextServerCall]_vars

\* ------------------------------------------------------------- reachability
\* the modules that declared dependency URLs of n resolve to
StaticSucc(g, n) ==
    IF g[n].tr = "deps"
    THEN {getModuleByUrl(u) : u \in {v \in g[n].deps : getModuleByUrl(v) # None}}
    ELSE {}

\* the edges the walker follows out of n
WalkSucc(g, n) ==
    IF g[n].tr = "none" THEN Range(g[n].importedModules) ELSE StaticSucc(g, n)

RECURSIVE StaticClosure(_, _)
StaticClosure(g, R) ==
    LET R2 == R \cup UNION {StaticSucc(g, n) : n \in R}
    IN  IF R2 = R THEN R ELSE StaticClosure(g, R2)

RECURSIVE WalkClosure(_, _)
WalkClosure(g, R) ==
    LET R2 == R \cup UNION {WalkSucc(g, n) : n \in R}
    IN  IF R2 = R THEN R ELSE WalkClosure(g, R2)

\* modules reachable from the roots through one or more edges
StaticReach(g, roots) == StaticClosure(g, UNION {StaticSucc(g, r) : r \in roots})
WalkReach(g, roots) == WalkClosure(g, UNION {WalkSucc(g, r) : r \in roots})

\* the graph without the declared dependency URLs that resolve to no node
CleanGraph ==
    [n \in Nodes |-> [graph[n] EXCEPT !.deps = {u \in @ : getModuleByUrl(u) # None}]]

\* the root of the traversal of the first input file
Root == FileNode(match[1])

\* the try block was left without a throw: every traversal has returned
WalkReturned == pc \in {"styles", "done"} /\ result # Undefined /\ ~threw

\* ------------------------------------------------------------- claims

\* strictly decreasing with every step of a collectStyles call
Measure ==
    Cardinality(lookups)
    + 6 * (Cardinality(Nodes) - Len(deps))
    + (IF pc \in {"file", "walk"} THEN 20 * (Len(match) - fi + 1) ELSE 0)
    + (IF pc = "file" THEN 10 ELSE 0)
    + (IF pc = "styles" THEN Len(deps) - si + 2 ELSE 0)

\* C1: a traversal terminates on every finite graph and for every settling order:
\* while find_deps has not returned some lookup is outstanding (no branch waits on
\* nothing), and every step strictly decreases a natural-number measure, so no
\* run is infinite and the call returns.
C1_Terminates ==
    /\ [](pc = "walk" => lookups # {})
    /\ [](Measure >= 0)
    /\ [][Measure' < Measure]_vars

\* C1 witness: the traversal of a cyclic graph returned, the root having been
\* reached again through the cycle, and no lookup is left outstanding
C1_Witness ==
    /\ pc = "done" /\ ~threw /\ lookups = {}
    /\ Root = "A" /\ expanded["A"] = 2
    /\ frameSt["root"] = "resolved"

\* C2 as stated: without a throw, the DependencySet is exactly the set of modules
\* reachable through declared dependency URLs that resolve to a node.
C2_Original ==
    WalkReturned => Range(deps) = StaticReach(graph, {Root})

\* C2 amended: without a throw, the DependencySet is exactly the set of modules
\* reachable through one or more walker edges (the resolving declared URLs of a
\* node with a static-import list, the importedModules of a node without a
\* transform result), whatever the settling order, and it holds each module once.
C2_ReachSet ==
    /\ Len(deps) = Cardinality(Range(deps))
    /\ WalkReturned => Range(deps) = WalkReach(graph, {Root})

\* C2 witness: a traversal that returned with every module collected, one of them
\* through the importedModules of a module without transform result
C2_Witness ==
    /\ WalkReturned /\ pc = "done"
    /\ Len(deps) = 3
    /\ \E n \in Nodes : graph[n].tr = "none" /\ expanded[n] > 0 /\ graph[n].importedModules # <<>>

\* C3 as stated: the root is never a member of its own DependencySet.
C3_Original ==
    WalkReturned => ~InDeps(deps, Root)

\* C3 amended: the root is a member of its own DependencySet exactly when it is
\* reachable from itself through a cycle of walker edges; for A imports B,
\* B imports A the traversal from A ends with {A, B}.
C3_RootIffCycle ==
    /\ InDeps(deps, Root) => Root \in WalkReach(graph, {Root})
    /\ WalkReturned => (InDeps(deps, Root) <=> Root \in WalkReach(graph, {Root}))

\* C3 witness: A imports B, B imports A, the traversal from A returned with {A, B}
C3_Witness ==
    /\ WalkReturned /\ pc = "done"
    /\ graph["A"].tr = "deps" /\ graph["A"].deps = {UrlOf("B")}
    /\ graph["B"].tr = "deps" /\ graph["B"].deps = {UrlOf("A")}
    /\ Range(deps) = {"A", "B"}

\* C4: a declared dependency URL that resolves to no node raises no error (no
\* frame is rejected and the catch block does not run unless a call threw), and
\* the DependencySet equals the traversal of the graph with such URLs removed:
\* the sibling dependencies are still traversed.
C4_UnresolvedSkipped ==
    /\ ~threw => (~caught /\ \A f \in Frames : frameSt[f] # "rejected")
    /\ WalkReturned => Range(deps) = WalkReach(CleanGraph, {Root})

\* C4 witness: a walked module declared an unresolvable URL next to a resolvable
\* one, and the traversal returned with the sibling collected
C4_Witness ==
    /\ WalkReturned /\ pc = "done"
    /\ \E n \in Nodes :
        /\ expanded[n] > 0 /\ graph[n].tr = "deps"
        /\ MissingUrl \in graph[n].deps
        /\ \E u \in graph[n].deps : getModuleByUrl(u) # None /\ InDeps(deps, getModuleByUrl(u))

\* C5 as stated: when a lookup throws while one input file is walked, the
\* traversal of every remaining input file still runs.
C5_OtherRootsContinue ==
    (pc \in {"styles", "done"} /\ frameSt["root"] = "rejected") => fi = Len(match)

\* the key of an island entry without its ?island suffix
BaseKey(k) == SubSeq(k, 1, Len(k) - 1)

\* newManifest has been built
Merged == cb = "islandsClient" /\ bpc # "start" /\ berr \notin {"build", "TypeError"}

\* the assets of `as` that are no scripts, in order
RECURSIVE KeepNonScript(_)
KeepNonScript(as) ==
    IF as = <<>> THEN <<>>
    ELSE IF Head(as).type = "script" THEN KeepNonScript(Tail(as))
    ELSE <<Head(as)>> \o KeepNonScript(Tail(as))

\* C6 as stated: for an island key whose route is in the primary manifest (as
\* /foo?island and /foo) the merge yields an entry with the island manifest's
\* scripts and the styles of the primary manifest's non-island route entry.
C6_Original ==
    (/\ cb = "islandsClient" /\ bpc # "start" /\ berr # "build"
     /\ Has(routeManifest, EntryClient) /\ Has(islandsManifest, EntryClient))
    => \A k \in Keys(islandsManifest) :
        (endsWithIsland(k) /\ Has(routeManifest, BaseKey(k))
            /\ Get(routeManifest, BaseKey(k)).kind = "list")
        => /\ berr # "TypeError"
           /\ Has(newManifest, k)
           /\ OfType(Get(newManifest, k).assets, "script")
                = OfType(Get(islandsManifest, k).assets, "script")
           /\ OfType(Get(newManifest, k).assets, "style")
                = OfType(Get(routeManifest, BaseKey(k)).assets, "style")

\* C6 amended: when the merge succeeds, the entry of every island key of the
\* island manifest is { script, assets } with the island manifest's script and
\* its script assets followed by the style assets of the primary manifest's
\* island entry under the SAME key, which the primary manifest must hold; an
\* island key without such a primary entry makes the merge throw a TypeError.
C6_IslandEntry ==
    /\ Merged =>
        \A k \in Keys(islandsManifest) : endsWithIsland(k) =>
            /\ Has(routeManifest, k) /\ Get(routeManifest, k).kind = "island"
            /\ ~startsWithSlash(k)
            /\ Has(newManifest, k)
            /\ Get(newManifest, k).kind = "island"
            /\ Get(newManifest, k).script = Get(islandsManifest, k).script
            /\ Get(newManifest, k).assets =
                    OfType(Get(islandsManifest, k).assets, "script")
                    \o OfType(Get(routeManifest, k).assets, "style")
    /\ (/\ cb = "islandsClient" /\ bpc # "start" /\ berr # "build"
        /\ \E k \in Keys(islandsManifest) : endsWithIsland(k) /\ ~Has(routeManifest, k))
       => berr = "TypeError"

\* C6 witness: a merged island entry that dropped the island bundle's style and
\* took the style of the primary manifest's entry under the same island key
C6_Witness ==
    /\ Merged
    /\ Has(islandsManifest, FileIslandKey)
    /\ Get(islandsManifest, FileIslandKey).assets = <<Asset("style", "d.css"), Asset("script", "c.js")>>
    /\ Get(routeManifest, FileIslandKey).assets = <<Asset("script", "b.js"), Asset("style", "a.css")>>
    /\ Get(newManifest, FileIslandKey).assets = <<Asset("script", "c.js"), Asset("style", "a.css")>>

\* C7: in the merged manifest every ordinary route key of the primary manifest is
\* present, its list holds no script, and it holds every non-script asset of the
\* primary entry in the primary entry's order.
C7_RoutesKeepNonScripts ==
    Merged =>
        \A k \in Keys(routeManifest) : (startsWithSlash(k) /\ ~endsWithIsland(k)) =>
            /\ Has(newManifest, k)
            /\ Get(newManifest, k).kind = "list"
            /\ \A i \in 1..Len(Get(newManifest, k).assets) :
                    Get(newManifest, k).assets[i].type # "script"
            /\ Get(newManifest, k).assets = KeepNonScript(Get(routeManifest, k).assets)

\* C7 witness: a merged route whose primary list held a script and a link
C7_Witness ==
    /\ Merged
    /\ Get(routeManifest, RouteKey).assets = <<Asset("script", "b.js"), Asset("link", "p.woff")>>
    /\ Get(newManifest, RouteKey).assets = <<Asset("link", "p.woff")>>

\* C8: the merged entry-client is exactly the script assets of the island build's
\* entry-client followed by the style assets of the main build's entry-client.
C8_EntryClient ==
    Merged =>
        /\ Has(newManifest, EntryClient)
        /\ Get(newManifest, EntryClient) =
                List(OfType(Get(islandsManifest, EntryClient).assets, "script")
                     \o OfType(Get(routeManifest, EntryClient).assets, "style"))

\* C8 witness: both builds' entry-client hold a script and a style, and the
\* merged entry-client holds the island build's script and the main build's style
C8_Witness ==
    /\ Merged
    /\ Get(islandsManifest, EntryClient).assets = <<Asset("script", "c.js"), Asset("style", "d.css")>>
    /\ Get(routeManifest, EntryClient).assets = <<Asset("script", "b.js"), Asset("style", "a.css")>>
    /\ Get(newManifest, EntryClient).assets = <<Asset("script", "c.js"), Asset("style", "a.css")>>

\* C9 as stated: once the merged route-manifest.json is in the final output
\* directory, every asset it refers to (script, style, link) is a file there.
C9_AssetsExistAtWrite ==
    (cb = "islandsClient" /\ outManifest # NoFile)
        => Hrefs(outManifest[1]) \subseteq outFiles

\* C10 as stated: whichever step of a build callback fails, no
\* route-manifest.json has been written to the final or the inspection directory.
C10_Original ==
    bpc = "failed" => (outManifest = NoFile /\ inspectManifest = NoFile)

\* C10 amended: a failure before the first write (bundler build, manifest read or
\* preparation, the merge, a style copy whose source is missing) leaves no
\* route-manifest.json in either directory; a route-manifest.json is only ever
\* written complete, after every style copy succeeded, to the final directory
\* first and then, with the same content, to the inspection directory.
C10_NoManifestBeforeWrites ==
    /\ (bpc = "failed" /\ berr \in {"build", "TypeError", "copy"})
        => (outManifest = NoFile /\ inspectManifest = NoFile)
    /\ outManifest # NoFile =>
        /\ outManifest = File(ToWrite)
        /\ cb = "islandsClient" =>
            /\ ~MergeThrows(routeManifest, islandsManifest)
            /\ \A i \in 1..Len(Flatten(newManifest)) :
                Flatten(newManifest)[i].type = "style"
                    => Flatten(newManifest)[i].href \in stagingFiles
    /\ inspectManifest # NoFile => inspectManifest = outManifest

\* C10 witness: the merge succeeded, a style copy failed on a missing source,
\* and nothing was persisted
C10_Witness ==
    /\ bpc = "failed" /\ berr = "copy"
    /\ outManifest = NoFile /\ inspectManifest = NoFile
    /\ newManifest # <<>>

\* ------------------------------------------------------------- claims C11..C20
\* the styles object that collectStyles returned
ReturnedStyles == result # Pending /\ result # Undefined

\* the node of a module URL
NodeOfUrl(u) == CHOOSE n \in Nodes : UrlOf(n) = u

\* C11: the value stored for a dependency whose file matches
\* *.module.<style ext> is never the default export of its module: it is
\* env.cssModules looked up by that file path (undefined when there is no such
\* mapping); the value of every other style dependency is its module's default
\* export.
C11_ModuleStyleValue ==
    \A e \in styles :
        LET n == NodeOfUrl(e[1])
            file == FileOf(n)
        IN  IF Len(file) >= 3 /\ file[Len(file) - 1] = "module"
            THEN /\ e[2] # <<"default", n>>
                 /\ e[2] = IF env.cssModules # <<>> /\ file \in env.cssModules[1]
                           THEN <<"classes", file>>
                           ELSE Undefined
            ELSE e[2] = <<"default", n>>

\* C11 witness: a returned StyleMap with the class-name mapping of the module
\* style and the default export of the plain style
C11_Witness ==
    /\ pc = "done" /\ ReturnedStyles
    /\ <<"/c.module.css", <<"classes", <<"/c", "module", "css">>>>>> \in result[2]
    /\ <<"/b.css", <<"default", "B">>>> \in result[2]

\* the keys of a styles object
StyleKeys(sty) == {e[1] : e \in sty}

\* C12: at the return of collectStyles the keys of the StyleMap are module URLs:
\* exactly the URLs of the members of the DependencySet whose file ends in a
\* style extension and whose load did not throw, each with one value; a member
\* with another file contributes no key.
C12_KeysAreLoadedStyles ==
    [][(pc # "done" /\ pc' = "done" /\ result' # Undefined) =>
        /\ StyleKeys(result'[2]) =
              {UrlOf(n) : n \in {m \in Range(deps') :
                    /\ FileOf(m)[Len(FileOf(m))] \in StyleExts
                    /\ m \notin loadFailed'}}
        /\ Cardinality(result'[2]) = Cardinality(StyleKeys(result'[2]))
        /\ StyleKeys(result'[2]) \subseteq Urls]_vars

\* C12 witness: a call returned the style of /b.css alone, while its
\* DependencySet also holds a module that is no style
C12_Witness ==
    /\ pc = "done" /\ ReturnedStyles
    /\ StyleKeys(result[2]) = {"/b.css"}
    /\ {"A", "B"} \subseteq Range(deps)

\* C13: a style load that throws does not end the call: at the return of
\* collectStyles every style dependency whose load did not throw, whether it was
\* iterated before or after the failing one, is in the StyleMap with its value,
\* and exactly the failing ones are missing.
C13_FailedLoadOmitsOneEntry ==
    [][(pc = "styles" /\ pc' = "done" /\ loadFailed' # {}) =>
        /\ result' # Undefined /\ result' # Pending
        /\ \A i \in 1..Len(deps') :
              FileOf(deps'[i])[Len(FileOf(deps'[i]))] \in StyleExts =>
                 IF deps'[i] \in loadFailed'
                 THEN UrlOf(deps'[i]) \notin StyleKeys(result'[2])
                 ELSE <<UrlOf(deps'[i]), StyleValue(deps'[i])>> \in result'[2]]_vars

\* C13 witness: the load of the first style dependency threw, and the style
\* iterated after it is in the returned StyleMap
C13_Witness ==
    /\ pc = "done" /\ ReturnedStyles
    /\ \E i, j \in 1..Len(deps) :
        /\ i < j
        /\ deps[i] \in loadFailed
        /\ UrlOf(deps[j]) \in StyleKeys(result[2])

\* C14: in a stable environment (same files, same module graph, same
\* env.cssModules, every call either always throwing or always returning) a second
\* collectStyles call returns what the first one returned.
C14_Idempotent ==
    (call = 2 /\ pc = "done") => result = first

\* C15: collectStyles returns a StyleMap for every input file set, never an
\* absent value.
C15_AlwaysStyleMap ==
    pc = "done" => result # Undefined

\* C16: a request whose rendering throws is answered: the response goes out
\* with status 500, its body carries the page with the prepared message and stack
\* of the error, it is ended, and startHandler rejects with that error.
C16_FailureAnsweredWith500 ==
    hpc = "failed" =>
        /\ rethrown # <<>>
        /\ res.ended
        /\ res.wireStatus = 500
        /\ \E i \in 1..Len(res.body) :
              res.body[i] = <<"ErrorOverlay", prepareError(req, rethrown[1])>>

\* the promise of a find_deps invocation has settled
Settled(f) == frameSt[f] \in {"resolved", "rejected"}

\* C17: the lookups of a node's dependency list are all issued when the node is
\* expanded, and the expansion of a node returns only after every one of its
\* branches, and of their sub-branches, has settled, also when a branch fails.
C17_ReturnsAfterAllBranches ==
    \A f \in Frames :
        Settled(f) =>
            /\ \A l \in lookups : l.fr # f
            /\ \A c \in children : c[1] = f => Settled(c[2])

\* how many input files that the loop has gone past, or is past the lookup of,
\* have node n as module
RootWalks(n) ==
    Cardinality({i \in 1..fi : FileNode(match[i]) = n /\ (i < fi \/ pc # "file")})

\* C18 as stated: within one collectStyles call every module node is passed to
\* find_deps at most once.
C18_Original ==
    \A n \in Nodes : expanded[n] <= 1

\* C18 amended: a node that is in the visited set is never expanded again by add,
\* so a node is passed to find_deps at most once through add, when it is added to
\* the set; the for-loop walks the node of each input file without consulting or
\* updating the set, so a node is expanded once more for each input file it is
\* the module of: twice for a root on an import cycle or for an input file that
\* an earlier input file already collected.
C18_OncePerAddAndRoot ==
    \A n \in Nodes :
        expanded[n] <= (IF n \in Range(deps) THEN 1 ELSE 0) + RootWalks(n)

\* C18 witness: the second input file was already collected as a dependency of
\* the first one, and its node has been expanded twice
C18_Witness ==
    /\ Len(match) = 2 /\ fi = 2 /\ pc # "file"
    /\ FileNode(match[1]) = "A" /\ FileNode(match[2]) = "B"
    /\ expanded["B"] = 2
    /\ "B" \in Range(deps)

\* the edges of C19: the resolving declared URLs of a node with a static-import
\* list, the importedModules of every other node
ListedSucc(g, n) ==
    IF g[n].tr = "deps" THEN StaticSucc(g, n) ELSE Range(g[n].importedModules)

RECURSIVE ListedClosure(_, _)
ListedClosure(g, R) ==
    LET R2 == R \cup UNION {ListedSucc(g, n) : n \in R}
    IN  IF R2 = R THEN R ELSE ListedClosure(g, R2)

\* the node that a find_deps invocation expands
FrameNode(f) == IF f = "root" THEN FileNode(match[fi]) ELSE f

\* the walked nodes: the root and the members of the DependencySet
Walked == {Root} \cup Range(deps)

\* C19 as stated: a node with a static-import list is expanded only through the
\* nodes its declared URLs resolve to, and every node without such a list, a node
\* with a transform result that has no deps list included, through its
\* importedModules: without a throw the DependencySet is what these edges reach
\* from the root.
C19_Original ==
    WalkReturned => Range(deps) = ListedClosure(graph, ListedSucc(graph, Root))

\* C19 amended: a node with a static-import list is expanded only through the
\* nodes its declared URLs resolve to (a lookup is only ever issued for a declared
\* URL of such a node, and its importedModules are not followed); a node without
\* a transform result is expanded through its importedModules; a node that has a
\* transform result without a deps list is not expanded through any edge.
C19_EdgeSelection ==
    /\ \A l \in lookups :
          /\ graph[FrameNode(l.fr)].tr = "deps"
          /\ l.url \in graph[FrameNode(l.fr)].deps
    /\ WalkReturned =>
          /\ \A n \in Walked :
                CASE graph[n].tr = "deps" ->
                        \A u \in graph[n].deps :
                            getModuleByUrl(u) # None => getModuleByUrl(u) \in Range(deps)
                  [] graph[n].tr = "none" -> Range(graph[n].importedModules) \subseteq Range(deps)
                  [] OTHER -> TRUE
          /\ \A m \in Range(deps) : \E n \in Walked :
                CASE graph[n].tr = "deps" -> \E u \in graph[n].deps : getModuleByUrl(u) = m
                  [] graph[n].tr = "none" -> m \in Range(graph[n].importedModules)
                  [] OTHER -> FALSE

\* C19 witness: a traversal returned whose root has a transform result without
\* a deps list: the modules it imports were not collected
C19_Witness ==
    /\ pc = "done" /\ WalkReturned
    /\ graph[Root].tr = "nodeps"
    /\ graph[Root].importedModules # <<>>
    /\ deps = <<>>

\* C20: once the traversal phase of collectStyles has ended, by completion or by
\* a throw, the DependencySet is not mutated any more: neither while the style
\* loop iterates over it nor after the call returned.
C20_NoLateAdds ==
    [][(pc \in {"styles", "done"}) => (deps' = deps)]_vars

\* ------------------------------------------------------------- claims C21..C29
\* the position of asset a in the list q, 0 when it is not in q
RECURSIVE PosIn(_, _)
PosIn(q, a) ==
    IF q = <<>> THEN 0
    ELSE IF q[Len(q)] = a /\ PosIn(SubSeq(q, 1, Len(q) - 1), a) = 0 THEN Len(q)
    ELSE PosIn(SubSeq(q, 1, Len(q) - 1), a)

\* the asset lists that the merged entry of key k is taken from
SourceLists(k) ==
    {Get(m, k).assets : m \in {x \in {routeManifest, islandsManifest} : Has(x, k)}}

\* C21: the island merge preserves list order: two assets of a merged asset list
\* that come from the same source asset list are in the order they have in that
\* source list.
C21_OrderPreserved ==
    Merged =>
        \A e \in Range(newManifest) : \A src \in SourceLists(e.k) :
            \A i, j \in 1..Len(e.v.assets) :
                (i < j /\ PosIn(src, e.v.assets[i]) > 0 /\ PosIn(src, e.v.assets[j]) > 0)
                    => PosIn(src, e.v.assets[i]) < PosIn(src, e.v.assets[j])

\* C21 witness: a merged island entry with the two scripts of the island build
\* and the two styles of the main build, each pair in its source order, the
\* styles having been apart in their source list
C21_Witness ==
    /\ Merged
    /\ Get(islandsManifest, FileIslandKey).assets =
          <<Asset("script", "c2.js"), Asset("style", "d.css"), Asset("script", "c1.js")>>
    /\ Get(routeManifest, FileIslandKey).assets =
          <<Asset("style", "a2.css"), Asset("script", "b.js"), Asset("style", "a1.css")>>
    /\ Get(newManifest, FileIslandKey).assets =
          <<Asset("script", "c2.js"), Asset("script", "c1.js"),
            Asset("style", "a2.css"), Asset("style", "a1.css")>>

\* C22: createRouteAction is latest-wins: once a newer submit has been started,
\* no step of the completion of an older submission changes input, result or
\* error.
C22_LatestWins ==
    [][\A i \in 1..Len(subs) :
          (i < count /\ subs'[i] # subs[i]) =>
              (input' = input /\ actionResult' = actionResult)]_vars

\* the latest submission, started by the last call made on the action
LatestIs(st) ==
    /\ count > 0 /\ lastCall \in {"submit", "retry"}
    /\ subs[count].st = st

\* C23: from the call of submit until the promise of that latest submission
\* settles, pending is true, whatever the input; once the latest submission has
\* settled and its completion handler has run, pending is false.
C23_PendingWhileInFlight ==
    /\ LatestIs("flight") => pending
    /\ LatestIs("done") => ~pending

\* C24: after clear(), and until the next submit or retry, input, result and
\* error are undefined and pending is false, also when a submission that was in
\* flight at the clear settles.
C24_StaysCleared ==
    lastCall = "clear" =>
        /\ input = JsUndefined
        /\ actionResult = NoResult
        /\ ~pending

\* C25: a retry() call without a recorded input throws, calls the action function
\* zero times and leaves input, result and error unchanged; with a recorded input
\* it starts exactly one new submission with that input.
C25_Retry ==
    [][(retries' = retries + 1) =>
          IF input = JsUndefined
          THEN /\ lastCall' = "retryThrew"
               /\ fnCalls' = fnCalls
               /\ input' = input /\ actionResult' = actionResult
          ELSE /\ lastCall' = "retry"
               /\ fnCalls' = fnCalls + 1
               /\ Len(subs') = Len(subs) + 1
               /\ subs'[Len(subs')].input = input
               /\ input' = input]_vars

\* the completion of the latest submission takes its last step, no clear() having
\* been called since it was started
LatestCompletes ==
    /\ count > 0 /\ count' = count
    /\ lastCall \in {"submit", "retry"} /\ lastCall' = lastCall
    /\ subs[count].st \in {"flight", "then", "catch"}
    /\ subs'[count].st \in {"done", "handlerFailed"}

\* C26: when the latest submission rejects with a value that is no redirect,
\* error is that value, result is undefined, input is the submitted input and
\* pending is false; when it rejects or resolves with a redirect, input is
\* cleared and no error or result is recorded.
C26_FailurePath ==
    [][LatestCompletes =>
          IF isRedirectResponse(subs'[count].out)
          THEN input' = JsUndefined /\ actionResult' = NoResult
          ELSE subs[count].st \in {"flight", "catch"} =>
                  /\ actionResult' = [kind |-> "error", v |-> subs'[count].out]
                  /\ input' = subs[count].input
                  /\ ~pending']_vars

\* the promise of submission j, or its completion, is still outstanding
Unsettled(j) ==
    \E f \in 1..Len(flights) :
        flights[f].sub = j /\ flights[f].st \in {"flight", "then", "catch"}

\* a promise of submission j was handled and none is outstanding
HasSettled(j) == (\E f \in 1..Len(flights) : flights[f].sub = j) /\ ~Unsettled(j)

\* C27: the pending list of a multi action is, in order, the listed submissions
\* that have not settled yet; a submission that settled with a result or with an
\* error is not in it.
C27_PendingView ==
    /\ pendingSubmissions = SelectSeq(submissions, LAMBDA j : ~HasSettled(j))
    /\ \A j \in Range(submissions) :
          (HasSettled(j) /\ made[j].res # NoResult) => j \notin Range(pendingSubmissions)

\* C28: a submit appends one submission at the end of the list; a clear of one
\* submission, called or done when it settles without data or with a redirect,
\* removes that submission only and keeps the others in their order, also when
\* another one was made with an equal input.
C28_AppendAndClearOne ==
    [][(mlast' # mlast) =>
          /\ mlast'.op = "submit" =>
                /\ Len(made') = Len(made) + 1
                /\ submissions' = Append(submissions, Len(made'))
          /\ mlast'.op \in {"clear", "settledClear"} =>
                submissions' = SelectSeq(submissions, LAMBDA j : j # mlast'.sub)]_vars

\* C29 as stated: for every server response the call rejects with the parsed
\* response value if and only if the response-type header is "throw", and
\* resolves with it otherwise.
C29_Original ==
    (spc = "done" /\ response # NoResponse) =>
        /\ outcome.how = (IF response.rtype = "throw" THEN "rejects" ELSE "resolves")
        /\ outcome.value = parseResponse(response)
        /\ outcome.value.kind # "threw"

\* C29 amended: for every server response that parseResponse parses, the call
\* rejects with the parsed value if and only if the response-type header is
\* "throw" and resolves with it otherwise, the value being computed the same way;
\* when parseResponse throws (a body that is no JSON, or JSON without an `error`
\* member, under a content type that requires it) the call rejects with that
\* error whatever the response-type header is.
C29_OutcomeRouting ==
    (spc = "done" /\ response # NoResponse) =>
        /\ outcome.value = parseResponse(response)
        /\ outcome.how = (IF response.rtype = "throw" \/ outcome.value.kind = "threw"
                          THEN "rejects" ELSE "resolves")

\* C29 witness: a response marked "throw" was rejected with its parsed value, a
\* FormError
C29_Witness ==
    /\ spc = "done" /\ response.rtype = "throw"
    /\ outcome = [how |-> "rejects", value |-> [kind |-> "FormError", v |-> "m", status |-> 0]]

====
